---- MODULE Spec2Model ----
(***************************************************************************)
(* A model of scheduler-gpt.py: the tick loops of schedule_fcfs,           *)
(* schedule_sjf_preemptive and schedule_rr, and run_scheduler's report.    *)
(*                                                                         *)
(* One loop iteration of a scheduler is two steps: the arrivals of the     *)
(* tick and the selection of the process to run (FcfsSelect, SjfSelect,    *)
(* RrSelect), then the execution of one unit (FcfsExec, SjfExec, RrExec).  *)
(* A Process object is a record; the working copies live in                *)
(* procs_sorted and are referred to by their position there, which stands  *)
(* for the object's identity.  A process name is modelled by its rank in   *)
(* the lexicographic order of the names, which is all the code uses of it  *)
(* (equality, and the order in the SJF key).                               *)
(***************************************************************************)
EXTENDS Integers, Sequences, FiniteSets

\* ---------------------------------------------------------------- bounds
\* The inputs: up to MaxProcs processes with unique names, arrivals in
\* 0..MaxArrival and bursts in 1..MaxBurst (the spec's data model: arrival
\* >= 0, burst > 0) that sum to at most MaxWork, a quantum in 1..MaxQuantum,
\* and a run of ShortRun or LongRun ticks.  "lottery" stands for any unknown
\* algorithm name.
MaxProcs == 3
MaxArrival == 1
MaxBurst == 3
MaxWork == 6
MaxQuantum == 2
ShortRun == 1
LongRun == 10

\* Python's None, for start_time, finish_time, current and quantum.
None == -1

Uses == {"fcfs", "sjf", "rr", "lottery"}
RunFors == {ShortRun, LongRun}
Quanta == 1..MaxQuantum

VARIABLES
  use,            \* params["use"]
  runfor,         \* params["runfor"]
  quantum,        \* params["quantum"], None when the input gives none
  procs_input,    \* params["processes"]: the caller's Process objects
  original_order, \* run_scheduler's deepcopy of procs_input
  procs_sorted,   \* the scheduler's working copies, sorted by arrival
  arrival_index,  \* how many entries of procs_sorted were admitted
  ready,          \* ready_queue / ready: positions in procs_sorted
  current,        \* position in procs_sorted of the current process, or None
  current_quantum_used,
  time,
  events,         \* the scheduler's event list
  output_lines,   \* run_scheduler's result
  pc,             \* "start", "loop", "exec", "report", "done", "error"
  ran,            \* history: per completed tick, the position that executed, or None
  logged_at       \* history: per event, the loop tick during which it was appended

vars == <<use, runfor, quantum, procs_input, original_order, procs_sorted,
          arrival_index, ready, current, current_quantum_used, time, events,
          output_lines, pc, ran, logged_at>>

\* ------------------------------------------------------------ Process
\* Process.__init__
Process(name, arrival, burst) ==
  [name |-> name, arrival |-> arrival, burst |-> burst, remaining |-> burst,
   start_time |-> None, finish_time |-> None, state |-> "NotArrived"]

\* mutant: a process with nothing left is not finished yet
is_finished_late(p) == p.remaining < 0

\* Process.is_finished
is_finished(p) == p.remaining <= 0

\* Process.turnaround
turnaround(p) ==
  IF p.finish_time = None THEN None ELSE p.finish_time - p.arrival

\* mutant: the wait is taken for the time before the first unit
wait_time_until_start(p) ==
  IF p.start_time = None THEN None ELSE p.start_time - p.arrival

\* Process.wait_time
wait_time(p) ==
  IF turnaround(p) = None THEN None ELSE turnaround(p) - p.burst

\* Process.response_time
response_time(p) ==
  IF p.start_time = None THEN None ELSE p.start_time - p.arrival

\* ------------------------------------------------------------ helpers
\* sorted(procs, key=lambda p: p.arrival): Python's sort is stable, so this
\* is insertion of each element behind the elements with arrival <= its own.
RECURSIVE InsertByArrival(_, _)
InsertByArrival(s, p) ==
  IF s = <<>> THEN <<p>>
  ELSE IF s[Len(s)].arrival <= p.arrival THEN Append(s, p)
  ELSE Append(InsertByArrival(SubSeq(s, 1, Len(s) - 1), p), s[Len(s)])

\* mutant: an unstable sort, equal arrivals end up in reverse input order
RECURSIVE SortByArrivalUnstable(_)
SortByArrivalUnstable(s) ==
  IF s = <<>> THEN <<>>
  ELSE LET rest == SortByArrivalUnstable(SubSeq(s, 1, Len(s) - 1))
           p == s[Len(s)]
           before == SelectSeq(rest, LAMBDA q : q.arrival < p.arrival)
           after == SelectSeq(rest, LAMBDA q : q.arrival >= p.arrival)
       IN before \o <<p>> \o after

RECURSIVE SortByArrival(_)
SortByArrival(s) ==
  IF s = <<>> THEN <<>>
  ELSE InsertByArrival(SortByArrival(SubSeq(s, 1, Len(s) - 1)), s[Len(s)])

\* The event strings, by their content: "Time <t> : <name> <kind>", with
\* "(burst <b>)" on a selected line only and no name on an Idle line.
ArrivedEvent(t, p) == [time |-> t, kind |-> "arrived", name |-> p.name, burst |-> None]
SelectedEvent(t, p) == [time |-> t, kind |-> "selected", name |-> p.name, burst |-> p.remaining]
FinishedEvent(t, p) == [time |-> t, kind |-> "finished", name |-> p.name, burst |-> None]
IdleEvent(t) == [time |-> t, kind |-> "Idle", name |-> None, burst |-> None]

\* mutant: at most one process is admitted per tick
ScanArrivalsOnce(ps, idx, t) ==
  IF idx < Len(ps) /\ ps[idx + 1].arrival = t THEN idx + 1 ELSE idx

\* The arrival scan: while arrival_index < n and
\* procs_sorted[arrival_index].arrival == time: ... arrival_index += 1
RECURSIVE ScanArrivals(_, _, _)
ScanArrivals(ps, idx, t) ==
  IF idx < Len(ps) /\ ps[idx + 1].arrival = t
  THEN ScanArrivals(ps, idx + 1, t)
  ELSE idx

\* mutant: the loop runs one tick too many
LoopContinuesInclusive(t, rf) == t <= rf

\* while time < runfor
LoopContinues(t, rf) == t < rf

\* mutant: the finish is labelled with the tick it happened in
FinishTickSame(t) == t

\* The label of a finish seen while executing tick t: finish_time = time + 1
FinishTick(t) == t + 1

\* mutant: every selection writes start_time
StartTimeOverwritten(old, t) == t

\* if current.start_time is None: current.start_time = time
StartTime(old, t) == IF old = None THEN t ELSE old

\* history: every event appended by this step was appended during tick `time`
Stamp ==
  logged_at' = logged_at \o [i \in 1..(Len(events') - Len(events)) |-> time]

\* ------------------------------------------------------------ Init
NameOrders(n) == {[i \in 1..n |-> i], [i \in 1..n |-> n + 1 - i]}

\* the sum of the bursts of a process list
RECURSIVE SumOfBursts(_)
SumOfBursts(ps) ==
  IF ps = <<>> THEN 0 ELSE Head(ps).burst + SumOfBursts(Tail(ps))

\* the process list of n process lines: names nm, arrivals and bursts ab
Input(n, nm, ab) == [i \in 1..n |-> Process(nm[i], ab[i][1], ab[i][2])]

Init ==
  /\ use \in Uses
  /\ runfor \in RunFors
  /\ quantum \in (IF use = "rr" THEN Quanta \cup {None} ELSE {None})
  /\ \E n \in 0..MaxProcs :
       \E nm \in NameOrders(n) :
         \E ab \in [1..n -> (0..MaxArrival) \X (1..MaxBurst)] :
           /\ procs_input = Input(n, nm, ab)
           /\ SumOfBursts(procs_input) <= MaxWork
  /\ original_order = <<>>
  /\ procs_sorted = <<>>
  /\ arrival_index = 0
  /\ ready = <<>>
  /\ current = None
  /\ current_quantum_used = 0
  /\ time = 0
  /\ events = <<>>
  /\ output_lines = <<>>
  /\ pc = "start"
  /\ ran = <<>>
  /\ logged_at = <<>>

\* ------------------------------------------------------------ dispatch
\* parse_input's last validation and run_scheduler's choice of a scheduler;
\* the scheduler's prologue (deepcopy, sort, empty queue) is part of it.
KnownUse(u) == u \in {"fcfs", "fifo", "sjf", "rr"}

\* mutant: a missing quantum is not looked for
FatalUnknownOnly == ~KnownUse(use)

\* if params["use"] == "rr" and params["quantum"] is None: error(...) in
\* parse_input, and the else branch of run_scheduler's dispatch
Fatal == (use = "rr" /\ quantum = None) \/ ~KnownUse(use)

Start ==
  /\ pc = "start"
  /\ ~Fatal
  /\ original_order' = procs_input
  /\ procs_sorted' = SortByArrival(procs_input)
  /\ pc' = "loop"
  /\ UNCHANGED <<use, runfor, quantum, procs_input, arrival_index, ready,
                 current, current_quantum_used, time, events, output_lines,
                 ran, logged_at>>

\* error(msg): print and sys.exit(1).  A missing quantum is found by
\* parse_input, before run_scheduler is entered; an unknown name is found by
\* run_scheduler's dispatch, after original_order = deepcopy(procs_input).
Error ==
  /\ pc = "start"
  /\ Fatal
  /\ original_order' = IF use = "rr" /\ quantum = None
                        THEN original_order
                        ELSE procs_input
  /\ pc' = "error"
  /\ UNCHANGED <<use, runfor, quantum, procs_input, procs_sorted,
                 arrival_index, ready, current, current_quantum_used, time,
                 events, output_lines, ran, logged_at>>

\* ------------------------------------------------------------ deepcopy
\* mutant: the scheduler works on the caller's objects, every write to a
\* working copy is a write to the caller's process of that name
CallersProcsShared(inp, work) ==
  [i \in 1..Len(inp) |->
     work[CHOOSE k \in 1..Len(work) : work[k].name = inp[i].name]]

\* procs = deepcopy(procs), the first statement of each scheduler: the
\* working copies are new objects, so what the scheduler writes to them
\* leaves the caller's objects, inp, as they are
CallersProcs(inp, work) == inp

\* ------------------------------------------------------------ arrivals
\* mutant: each arrival is put at the head of the ready structure
EnqueueAtHead(rdy, new) ==
  [i \in 1..Len(new) |-> new[Len(new) + 1 - i]] \o rdy

\* ready_queue.append(p) / ready.append(p) in the arrival loop, for the
\* arrivals new of one tick, taken in the order of procs_sorted
Enqueue(rdy, new) == rdy \o new

\* The arrival phase of a tick, the same code in the three schedulers: the
\* processes arriving at tick t become Ready, join the tail of the ready
\* structure and are logged, in the order of procs_sorted.
Admit(ps, rdy, idx, evs, t) ==
  LET last == ScanArrivals(ps, idx, t)
      new == [i \in 1..(last - idx) |-> idx + i]
  IN [procs |-> [i \in 1..Len(ps) |->
                   IF i > idx /\ i <= last
                   THEN [ps[i] EXCEPT !.state = "Ready"]
                   ELSE ps[i]],
      ready |-> Enqueue(rdy, new),
      index |-> last,
      events |-> evs \o [i \in 1..Len(new) |-> ArrivedEvent(t, ps[new[i]])]]

\* ------------------------------------------------------------ FCFS
IsFcfs == use \in {"fcfs", "fifo"}

\* mutant: the head of the ready queue is taken whenever there is one
FcfsPicksEager(reselect, cur, rdy) == rdy # <<>>

\* if current is None or current.is_finished(): ... if current is None:
\* if ready_queue: -- whether the head of the ready queue is taken
FcfsPicks(reselect, cur, rdy) == reselect /\ cur = None /\ rdy # <<>>

FcfsSelect ==
  /\ pc = "loop"
  /\ LoopContinues(time, runfor)
  /\ IsFcfs
  /\ \E adm \in {Admit(procs_sorted, ready, arrival_index, events, time)} :
     LET reselect == current = None \/ is_finished(adm.procs[current])
         late == reselect /\ current # None
                   /\ is_finished(adm.procs[current])
                   /\ adm.procs[current].finish_time = None
         ps1 == IF late
                THEN [adm.procs EXCEPT ![current].finish_time = time,
                                       ![current].state = "Finished"]
                ELSE adm.procs
         ev1 == IF late
                THEN Append(adm.events, FinishedEvent(time, adm.procs[current]))
                ELSE adm.events
         cur1 == IF late THEN None ELSE current
         pick == FcfsPicks(reselect, cur1, adm.ready)
         c == Head(adm.ready)
     IN IF pick
        THEN /\ current' = c
             /\ ready' = Tail(adm.ready)
             /\ procs_sorted' =
                  [ps1 EXCEPT ![c].start_time = StartTime(@, time),
                              ![c].state = "Running"]
             /\ events' = Append(ev1, SelectedEvent(time, ps1[c]))
        ELSE /\ current' = cur1
             /\ ready' = adm.ready
             /\ procs_sorted' = ps1
             /\ events' = ev1
  /\ pc' = "exec"
  /\ arrival_index' = ScanArrivals(procs_sorted, arrival_index, time)
  /\ Stamp
  /\ procs_input' = CallersProcs(procs_input, procs_sorted')
  /\ UNCHANGED <<use, runfor, quantum, original_order,
                 current_quantum_used, time, output_lines, ran>>

FcfsExec ==
  /\ pc = "exec"
  /\ IsFcfs
  /\ IF current # None
     THEN LET ps1 == [procs_sorted EXCEPT ![current].remaining = @ - 1]
          IN IF is_finished(ps1[current])
             THEN /\ procs_sorted' =
                       [ps1 EXCEPT ![current].finish_time = FinishTick(time),
                                   ![current].state = "Finished"]
                  /\ events' = Append(events, FinishedEvent(FinishTick(time), ps1[current]))
                  /\ current' = None
             ELSE /\ procs_sorted' = ps1
                  /\ events' = events
                  /\ current' = current
     ELSE /\ events' = Append(events, IdleEvent(time))
          /\ UNCHANGED <<procs_sorted, current>>
  /\ ran' = Append(ran, current)
  /\ time' = time + 1
  /\ pc' = "loop"
  /\ Stamp
  /\ procs_input' = CallersProcs(procs_input, procs_sorted')
  /\ UNCHANGED <<use, runfor, quantum, original_order,
                 arrival_index, ready, current_quantum_used, output_lines>>

\* ------------------------------------------------------------ preemption
\* mutant: the preempted process is left in state Running
PreemptedStaysRunning(ps, i) == ps

\* current.state = "Ready": the preempted process, in SJF and in RR
Preempted(ps, i) == [ps EXCEPT ![i].state = "Ready"]

\* ------------------------------------------------------------ SJF
\* mutant: on equal remaining the later arrival comes first
KeyLessLatestFirst(p, q) ==
  \/ p.remaining < q.remaining
  \/ p.remaining = q.remaining /\ p.arrival > q.arrival
  \/ p.remaining = q.remaining /\ p.arrival = q.arrival /\ p.name < q.name

\* The SJF key (remaining, arrival, name) and its lexicographic order.
KeyLess(p, q) ==
  \/ p.remaining < q.remaining
  \/ p.remaining = q.remaining /\ p.arrival < q.arrival
  \/ p.remaining = q.remaining /\ p.arrival = q.arrival /\ p.name < q.name

\* mutant: the key is the remaining time alone
MinByRemaining(ps, cands) ==
  LET isMin(i) == \A j \in 1..Len(cands) :
                    ps[cands[j]].remaining >= ps[cands[i]].remaining
      first == CHOOSE i \in 1..Len(cands) :
                 isMin(i) /\ \A j \in 1..(i - 1) : ~isMin(j)
  IN cands[first]

\* min(candidates, key=...): the first element no other element is below.
MinByKey(ps, cands) ==
  LET isMin(i) == \A j \in 1..Len(cands) : ~KeyLess(ps[cands[j]], ps[cands[i]])
      first == CHOOSE i \in 1..Len(cands) :
                 isMin(i) /\ \A j \in 1..(i - 1) : ~isMin(j)
  IN cands[first]

\* mutant: the current process is not a candidate
CandidatesReadyOnly(ps, rdy, cur) ==
  SelectSeq(rdy, LAMBDA i : ~is_finished(ps[i]))

\* candidates = [p for p in ready if not p.is_finished()] (+ current)
Candidates(ps, rdy, cur) ==
  SelectSeq(rdy, LAMBDA i : ~is_finished(ps[i]))
    \o (IF cur # None /\ ~is_finished(ps[cur]) THEN <<cur>> ELSE <<>>)

\* list.remove(x): drops the first occurrence
RECURSIVE Remove(_, _)
Remove(s, x) ==
  IF s = <<>> THEN <<>>
  ELSE IF Head(s) = x THEN Tail(s)
  ELSE <<Head(s)>> \o Remove(Tail(s), x)

\* mutant: every process is taken to be in the list already
InSeqAlways(s, x) == TRUE

\* x in s
InSeq(s, x) == \E i \in 1..Len(s) : s[i] = x

\* mutant: every tick is taken for a switch
SwitchesAlways(chosen, cur) == TRUE

\* if chosen is not current
Switches(chosen, cur) == chosen # cur

SjfSelect ==
  /\ pc = "loop"
  /\ LoopContinues(time, runfor)
  /\ use = "sjf"
  /\ \E adm \in {Admit(procs_sorted, ready, arrival_index, events, time)} :
     LET candidates == Candidates(adm.procs, adm.ready, current)
     IN IF candidates # <<>>
        THEN LET chosen == MinByKey(adm.procs, candidates)
                 preempt == current # None /\ ~is_finished(adm.procs[current])
                 ps1 == IF preempt
                        THEN Preempted(adm.procs, current)
                        ELSE adm.procs
                 rdy1 == IF preempt /\ ~InSeq(adm.ready, current)
                         THEN Append(adm.ready, current)
                         ELSE adm.ready
             IN /\ IF Switches(chosen, current)
                   THEN /\ ready' = Remove(rdy1, chosen)
                        /\ current' = chosen
                        /\ procs_sorted' =
                             [ps1 EXCEPT ![chosen].start_time = StartTime(@, time),
                                         ![chosen].state = "Running"]
                        /\ events' = Append(adm.events, SelectedEvent(time, ps1[chosen]))
                   ELSE /\ ready' = adm.ready
                        /\ current' = current
                        /\ procs_sorted' = adm.procs
                        /\ events' = adm.events
                /\ pc' = "exec"
                /\ UNCHANGED <<time, ran>>
        ELSE /\ current' = IF current # None /\ is_finished(adm.procs[current])
                           THEN None ELSE current
             /\ events' = Append(adm.events, IdleEvent(time))
             /\ ran' = Append(ran, None)
             /\ time' = time + 1
             /\ pc' = "loop"
             /\ ready' = adm.ready
             /\ procs_sorted' = adm.procs
  /\ arrival_index' = ScanArrivals(procs_sorted, arrival_index, time)
  /\ Stamp
  /\ procs_input' = CallersProcs(procs_input, procs_sorted')
  /\ UNCHANGED <<use, runfor, quantum, original_order,
                 current_quantum_used, output_lines>>

SjfExec ==
  /\ pc = "exec"
  /\ use = "sjf"
  /\ LET ps1 == [procs_sorted EXCEPT ![current].remaining = @ - 1]
     IN IF is_finished(ps1[current])
        THEN /\ procs_sorted' =
                  [ps1 EXCEPT ![current].finish_time = FinishTick(time),
                              ![current].state = "Finished"]
             /\ events' = Append(events, FinishedEvent(FinishTick(time), ps1[current]))
             /\ current' = None
        ELSE /\ procs_sorted' = ps1
             /\ events' = events
             /\ current' = current
  /\ ran' = Append(ran, current)
  /\ time' = time + 1
  /\ pc' = "loop"
  /\ Stamp
  /\ procs_input' = CallersProcs(procs_input, procs_sorted')
  /\ UNCHANGED <<use, runfor, quantum, original_order,
                 arrival_index, ready, current_quantum_used, output_lines>>

\* ------------------------------------------------------------ RR
\* mutant: the quantum runs one tick long
QuantumExpiredLate(used, q) == used > q

\* current_quantum_used >= quantum
QuantumExpired(used, q) == used >= q

\* mutant: the preempted process goes to the head of the ready queue
RequeueAtHead(rdy, c) == <<c>> \o rdy

\* ready.append(current): the preempted process goes to the tail of the
\* ready queue, behind the arrivals of the tick
Requeue(rdy, c) == Append(rdy, c)

RrSelect ==
  /\ pc = "loop"
  /\ LoopContinues(time, runfor)
  /\ use = "rr"
  /\ \E adm \in {Admit(procs_sorted, ready, arrival_index, events, time)} :
     LET reselect == \/ current = None
                     \/ is_finished(adm.procs[current])
                     \/ QuantumExpired(current_quantum_used, quantum)
         \* the current process is found finished here
         late == reselect /\ current # None /\ is_finished(adm.procs[current])
         ps1 == IF late
                THEN [adm.procs EXCEPT
                        ![current].finish_time = IF @ = None THEN time ELSE @,
                        ![current].state = "Finished"]
                ELSE adm.procs
         ev1 == IF late
                THEN Append(adm.events, FinishedEvent(time, adm.procs[current]))
                ELSE adm.events
         cur1 == IF late THEN None ELSE current
         used1 == IF late THEN 0 ELSE current_quantum_used
         \* the current process used its full quantum: requeue it at the tail
         expired == reselect /\ cur1 # None /\ ~is_finished(ps1[cur1])
                      /\ QuantumExpired(used1, quantum)
         ps2 == IF expired THEN Preempted(ps1, cur1) ELSE ps1
         rdy2 == IF expired THEN Requeue(adm.ready, cur1) ELSE adm.ready
         cur2 == IF expired THEN None ELSE cur1
         used2 == IF expired THEN 0 ELSE used1
         pick == reselect /\ cur2 = None /\ rdy2 # <<>>
         c == Head(rdy2)
     IN IF pick
        THEN /\ current' = c
             /\ ready' = Tail(rdy2)
             /\ procs_sorted' =
                  [ps2 EXCEPT ![c].start_time = StartTime(@, time),
                              ![c].state = "Running"]
             /\ current_quantum_used' = 0
             /\ events' = Append(ev1, SelectedEvent(time, ps2[c]))
        ELSE /\ current' = cur2
             /\ ready' = rdy2
             /\ procs_sorted' = ps2
             /\ current_quantum_used' = used2
             /\ events' = ev1
  /\ pc' = "exec"
  /\ arrival_index' = ScanArrivals(procs_sorted, arrival_index, time)
  /\ Stamp
  /\ procs_input' = CallersProcs(procs_input, procs_sorted')
  /\ UNCHANGED <<use, runfor, quantum, original_order,
                 time, output_lines, ran>>

RrExec ==
  /\ pc = "exec"
  /\ use = "rr"
  /\ IF current # None
     THEN LET ps1 == [procs_sorted EXCEPT ![current].remaining = @ - 1]
          IN IF is_finished(ps1[current])
             THEN /\ procs_sorted' =
                       [ps1 EXCEPT ![current].finish_time = FinishTick(time),
                                   ![current].state = "Finished"]
                  /\ events' = Append(events, FinishedEvent(FinishTick(time), ps1[current]))
                  /\ current' = None
                  /\ current_quantum_used' = 0
             ELSE /\ procs_sorted' = ps1
                  /\ events' = events
                  /\ current' = current
                  /\ current_quantum_used' = current_quantum_used + 1
     ELSE /\ events' = Append(events, IdleEvent(time))
          /\ UNCHANGED <<procs_sorted, current, current_quantum_used>>
  /\ ran' = Append(ran, current)
  /\ time' = time + 1
  /\ pc' = "loop"
  /\ Stamp
  /\ procs_input' = CallersProcs(procs_input, procs_sorted')
  /\ UNCHANGED <<use, runfor, quantum, original_order,
                 arrival_index, ready, output_lines>>

\* ------------------------------------------------------------ loop exit
\* while time < runfor fails: return events, procs_sorted
LoopExit ==
  /\ pc = "loop"
  /\ ~LoopContinues(time, runfor)
  /\ pc' = "report"
  /\ UNCHANGED <<use, runfor, quantum, procs_input, original_order,
                 procs_sorted, arrival_index, ready, current,
                 current_quantum_used, time, events, output_lines, ran,
                 logged_at>>

\* ------------------------------------------------------------ report
\* proc_map = {p.name: p for p in final_procs_ref}: a later entry with the
\* same name replaces an earlier one.
ProcMap(ps, name) ==
  LET hits == {i \in 1..Len(ps) : ps[i].name = name}
  IN IF hits = {} THEN None
     ELSE CHOOSE i \in hits : \A j \in hits : j <= i

\* "If any metric None, set to 0"
OrZero(x) == IF x = None THEN 0 ELSE x

\* One metrics line of the report, for the original process op.
MetricsLine(ps, op) ==
  LET k == ProcMap(ps, op.name)
  IN IF k = None
     THEN [kind |-> "did not finish", name |-> op.name]
     ELSE IF ps[k].finish_time = None
     THEN [kind |-> "did not finish", name |-> ps[k].name]
     ELSE [kind |-> "metrics", name |-> ps[k].name,
           wait |-> OrZero(wait_time(ps[k])),
           turnaround |-> OrZero(turnaround(ps[k])),
           response |-> OrZero(response_time(ps[k]))]

\* alg_display_name; its last branch, f"Using {use}", echoes the name; it is
\* never reached from run_scheduler, which ends in error() for an unknown
\* name
alg_display_name(u) ==
  IF u \in {"fcfs", "fifo"} THEN "Using First In First Out"
  ELSE IF u = "sjf" THEN "Using preemptive Shortest Job First"
  ELSE IF u = "rr" THEN "Using Round Robin"
  ELSE "Using " \o u

\* run_scheduler after the scheduler returned: the output lines.
Report ==
  /\ pc = "report"
  /\ output_lines' =
       <<[kind |-> "processes", count |-> Len(procs_input)],
         [kind |-> "using", text |-> alg_display_name(use)]>>
       \o (IF use = "rr" THEN <<[kind |-> "quantum", quantum |-> quantum]>>
           ELSE <<>>)
       \o <<[kind |-> "blank"]>>
       \o events
       \o <<[kind |-> "blank"],
            [kind |-> "finished at", time |-> runfor],
            [kind |-> "blank"]>>
       \o [i \in 1..Len(original_order) |->
             MetricsLine(procs_sorted, original_order[i])]
  /\ pc' = "done"
  /\ UNCHANGED <<use, runfor, quantum, procs_input, original_order,
                 procs_sorted, arrival_index, ready, current,
                 current_quantum_used, time, events, ran, logged_at>>

Next ==
  \/ Start
  \/ Error
  \/ FcfsSelect
  \/ FcfsExec
  \/ SjfSelect
  \/ SjfExec
  \/ RrSelect
  \/ RrExec
  \/ LoopExit
  \/ Report

Spec == Init /\ [][Next]_vars

\* ============================================================ claims
\* What the claims are stated over: the history of executed ticks.
\* Tick t is entry t + 1 of ran.
Executed(i) == Cardinality({k \in 1..Len(ran) : ran[k] = i})

\* first and last entry of ran that belongs to position i, 0 when none
FirstRun(i) ==
  LET runs == {k \in 1..Len(ran) : ran[k] = i}
  IN IF runs = {} THEN 0 ELSE CHOOSE k \in runs : \A m \in runs : k <= m

LastRun(i) ==
  LET runs == {k \in 1..Len(ran) : ran[k] = i}
  IN IF runs = {} THEN 0 ELSE CHOOSE k \in runs : \A m \in runs : m <= k

\* the events of one kind, as positions in the log
EventsOf(kind) == {j \in 1..Len(events) : events[j].kind = kind}

\* the selected event j is about a tick that has been executed, and the
\* process that executed it is the one the event names
SelectedRuns(j) ==
  /\ events[j].time < Len(ran)
  /\ ran[events[j].time + 1] # None
  /\ procs_sorted[ran[events[j].time + 1]].name = events[j].name

\* the process executing tick t is not the one that executed tick t - 1
ChangedAt(t) == t = 0 \/ ran[t] # ran[t + 1]

\* RR: the process executing tick t was selected at tick t - quantum and
\* has executed every tick since, so its quantum is used up at tick t
RequeuedAt(t) ==
  /\ use = "rr"
  /\ t >= quantum
  /\ \A k \in (t - quantum + 1)..t : ran[k] = ran[t + 1]
  /\ \E j \in EventsOf("selected") :
       /\ events[j].time = t - quantum
       /\ events[j].name = procs_sorted[ran[t + 1]].name

\* C1 as stated: in every policy a "selected" event is appended at tick t
\* only when the process that executes at tick t differs from the one that
\* executed at tick t-1 (or nothing executed at t-1), also for an RR process
\* whose quantum expires while the ready queue is otherwise empty.
C1_SelectedOnlyOnChange ==
  \A j \in EventsOf("selected") :
    events[j].time < Len(ran) => SelectedRuns(j) /\ ChangedAt(events[j].time)

\* C1 amended: a "selected" event is appended at tick t only when the process
\* that executes at tick t differs from the one that executed at tick t-1 (or
\* nothing executed at t-1), or, under RR, when the process has just used up
\* its quantum: it is requeued and, the queue being otherwise empty, selected
\* again with a new "selected" event.
C1_SelectedOnChangeOrRequeue ==
  \A j \in EventsOf("selected") :
    events[j].time < Len(ran) =>
      /\ SelectedRuns(j)
      /\ ChangedAt(events[j].time) \/ RequeuedAt(events[j].time)

\* C1 witness: an RR log holding a selection that follows another process's
\* tick and a selection of the process that executed the tick before.
C1_Witness ==
  /\ use = "rr"
  /\ \E j \in EventsOf("selected") :
       /\ SelectedRuns(j)
       /\ events[j].time > 0
       /\ ran[events[j].time] # None
       /\ ran[events[j].time] # ran[events[j].time + 1]
  /\ \E j \in EventsOf("selected") :
       /\ SelectedRuns(j)
       /\ events[j].time > 0
       /\ ran[events[j].time] = ran[events[j].time + 1]

\* the state of the log and of the finish times that C2 describes
C2_State ==
  LET finished == EventsOf("finished")
  IN /\ \A i \in 1..Len(procs_sorted) :
          LET p == procs_sorted[i]
              fins == {j \in finished : events[j].name = p.name}
              last == LastRun(i)
          IN /\ Cardinality(fins) <= 1
             /\ Executed(i) < p.burst => fins = {} /\ p.finish_time = None
             /\ Executed(i) >= p.burst =>
                  /\ p.finish_time = last
                  /\ \E j \in fins : /\ events[j].time = last
                                     /\ logged_at[j] = last - 1
     \* no other event with the label of a "finished" event precedes it
     /\ \A j \in finished :
          \A k \in 1..(j - 1) :
            events[k].kind = "finished" \/ events[k].time # events[j].time

\* C2: in every policy, when the executing process's remaining reaches 0
\* during tick t, its finish_time is t+1 and a "finished" event labelled t+1
\* is appended during tick t itself, so that it precedes every "arrived",
\* "selected" and "Idle" event labelled t+1; each process gets at most one
\* "finished" event.
C2_FinishLoggedInItsTick == []C2_State

\* C2 witness: a "finished" event labelled t+1 is followed in the log by an
\* "arrived" event labelled t+1.
C2_Witness ==
  \E j \in EventsOf("finished") :
    \E k \in EventsOf("arrived") :
      events[k].time = events[j].time /\ j < k /\ logged_at[j] + 1 = logged_at[k]

\* Scenario 3 of the spec: round robin, quantum 2, runFor 10,
\* P1(arrival 0, burst 3), P2(arrival 0, burst 3)
Scenario3 ==
  /\ use = "rr"
  /\ quantum = 2
  /\ runfor = 10
  /\ procs_input = <<Process(1, 0, 3), Process(2, 0, 3)>>

\* P1 runs ticks 0-1 and is requeued, P2 runs ticks 2-3 and is requeued,
\* P1 runs tick 4 and finishes at 5
Scenario3Start ==
  /\ Len(ran) >= 5 => SubSeq(ran, 1, 5) = <<1, 1, 2, 2, 1>>
  /\ pc = "exec" /\ time = 2 => current = 2 /\ ready = <<1>>
  /\ pc = "exec" /\ time = 4 => current = 1 /\ ready = <<2>>
  /\ pc = "done" => procs_sorted[1].finish_time = 5

\* C3 as stated: in scenario 3, P1 executes ticks 0-1 and is requeued, P2
\* executes ticks 2-3 and is requeued, P1 executes tick 4 and finishes at
\* tick 5, and P2 then runs until it finishes at tick 7.
C3_Scenario3FinishAt7 ==
  Scenario3 /\ pc # "start" =>
    /\ Scenario3Start
    /\ pc = "done" => procs_sorted[2].finish_time = 7

\* C3 amended: in scenario 3, P1 executes ticks 0-1 and is requeued, P2
\* executes ticks 2-3 and is requeued, P1 executes tick 4 and finishes at
\* tick 5, and P2 then executes tick 5 and finishes at tick 6; ticks 6-9 are
\* idle.
C3_Scenario3FinishAt6 ==
  Scenario3 /\ pc # "start" =>
    /\ Scenario3Start
    /\ pc = "done" =>
         /\ procs_sorted[2].finish_time = 6
         /\ ran = <<1, 1, 2, 2, 1, 2, None, None, None, None>>
         /\ [j \in 1..Len(events) |-> <<events[j].time, events[j].kind, events[j].name>>]
              = << <<0, "arrived", 1>>, <<0, "arrived", 2>>,
                   <<0, "selected", 1>>, <<2, "selected", 2>>,
                   <<4, "selected", 1>>, <<5, "finished", 1>>,
                   <<5, "selected", 2>>, <<6, "finished", 2>>,
                   <<6, "Idle", None>>, <<7, "Idle", None>>,
                   <<8, "Idle", None>>, <<9, "Idle", None>> >>

\* C3 witness: scenario 3 has run to its end.
C3_Witness == Scenario3 /\ pc = "done" /\ Len(ran) = 10

\* the position in procs_sorted of the process of that name
PosOf(name) == CHOOSE i \in 1..Len(procs_sorted) : procs_sorted[i].name = name

\* the label of the "finished" event of that name, None when it has none
FinishedAt(name) ==
  IF \E j \in EventsOf("finished") : events[j].name = name
  THEN events[CHOOSE j \in EventsOf("finished") : events[j].name = name].time
  ELSE None

\* C4: under FCFS, between a process's "selected" event and its "finished"
\* event every executed tick belongs to that process, whatever arrives in
\* between: no other process executes a tick until it has finished.
C4_FcfsRunsToCompletion ==
  IsFcfs =>
    \A j \in EventsOf("selected") :
      LET n == events[j].name
          last == IF FinishedAt(n) = None THEN Len(ran) ELSE FinishedAt(n)
      IN \A k \in (events[j].time + 1)..last : ran[k] = PosOf(n)

\* C4 witness: a process finished under FCFS although a process with a
\* shorter burst arrived while it was executing.
C4_Witness ==
  /\ IsFcfs
  /\ \E i, k \in 1..Len(procs_sorted) :
       /\ procs_sorted[i].state = "Finished"
       /\ procs_sorted[k].arrival > procs_sorted[i].start_time
       /\ procs_sorted[k].arrival < procs_sorted[i].finish_time
       /\ procs_sorted[k].burst
            < procs_sorted[i].burst
                - (procs_sorted[k].arrival - procs_sorted[i].start_time)
       /\ Executed(k) > 0

\* the SJF key of the claim: (remaining, arrival, name), lexicographic
KeyBelow(p, q) ==
  \/ p.remaining < q.remaining
  \/ /\ p.remaining = q.remaining
     /\ \/ p.arrival < q.arrival
        \/ p.arrival = q.arrival /\ p.name < q.name

\* the processes that have arrived by the current tick and are unfinished
Unfinished ==
  {i \in 1..Len(procs_sorted) :
     procs_sorted[i].arrival <= time /\ procs_sorted[i].remaining > 0}

\* b is the minimum of the arrived, unfinished processes by the SJF key
IsKeyMinimum(b) ==
  /\ b \in Unfinished
  /\ \A i \in Unfinished : ~KeyBelow(procs_sorted[i], procs_sorted[b])

\* process a executed the tick before the current one and is unfinished
WasRunning(a) == time > 0 /\ ran[time] = a /\ procs_sorted[a].remaining > 0

\* process b executes the current tick in place of a: a is back in Ready
\* and the "selected" event for b is the last event logged
RunsInPlaceOf(b, a) ==
  /\ current = b
  /\ current # a
  /\ procs_sorted[b].state = "Running"
  /\ procs_sorted[a].state = "Ready"
  /\ InSeq(ready, a)
  /\ events[Len(events)] =
       [time |-> time, kind |-> "selected",
        name |-> procs_sorted[b].name,
        burst |-> procs_sorted[b].remaining]

\* under preemptive SJF the process that executes the current tick is the
\* minimum, by the key, of the arrived, unfinished processes
SjfRunsKeyMinimum ==
  use = "sjf" /\ pc = "exec" =>
    /\ current # None
    /\ procs_sorted[current].state = "Running"
    /\ IsKeyMinimum(current)

\* C5 as stated: under preemptive SJF the process that executes at tick t is
\* the key minimum of the arrived, unfinished processes, and whenever A is
\* running and a Ready B has less remaining than A at tick t, that B executes
\* at tick t in place of A, A returns to Ready and a "selected" event for B
\* is emitted.  With two Ready processes that both have less remaining than
\* A, only one of them can execute, so this fails.
C5_AnyShorterReadyRuns ==
  /\ SjfRunsKeyMinimum
  /\ use = "sjf" /\ pc = "exec" =>
       \A a \in 1..Len(procs_sorted) :
         \A b \in Unfinished \ {a} :
           /\ WasRunning(a)
           /\ procs_sorted[b].remaining < procs_sorted[a].remaining
           => RunsInPlaceOf(b, a)

\* C5, amended: under preemptive SJF the process that executes at tick t is
\* the minimum, by the key (remaining, arrival, name), of all processes that
\* have arrived by t and are unfinished; whenever A is running and some Ready
\* process has less remaining than A at tick t, A does not execute at tick t
\* and returns to Ready, and the process B that executes in its place, with
\* a "selected" event for B, is the key minimum, which is a given Ready
\* process with less remaining only when no other one is below it by the key.
C5_SjfRunsTheMinimum ==
  /\ SjfRunsKeyMinimum
  /\ use = "sjf" /\ pc = "exec" =>
       \A a \in 1..Len(procs_sorted) :
         /\ WasRunning(a)
         /\ \E b \in Unfinished \ {a} :
              procs_sorted[b].remaining < procs_sorted[a].remaining
         => \E b \in Unfinished \ {a} :
              /\ IsKeyMinimum(b)
              /\ procs_sorted[b].remaining < procs_sorted[a].remaining
              /\ RunsInPlaceOf(b, a)

\* C5 witness: the process that executed the tick before is unfinished, two
\* Ready processes have less remaining than it, the key minimum of the two
\* is about to execute and the other one stays Ready.
C5_Witness ==
  /\ use = "sjf"
  /\ pc = "exec"
  /\ \E a, b, c \in 1..Len(procs_sorted) :
       /\ WasRunning(a)
       /\ b # a /\ c # a /\ b # c
       /\ {b, c} \subseteq Unfinished
       /\ procs_sorted[b].remaining < procs_sorted[a].remaining
       /\ procs_sorted[c].remaining < procs_sorted[a].remaining
       /\ KeyBelow(procs_sorted[b], procs_sorted[c])
       /\ RunsInPlaceOf(b, a)
       /\ procs_sorted[c].state = "Ready"

\* RR: the tick at which the run that the "selected" event j starts ends:
\* the first tick not executed yet, or not executed by the selected process,
\* or begun by another "selected" event.
RunEnd(j) ==
  LET s == events[j].time
      i == PosOf(events[j].name)
      stops(t) == \/ t = Len(ran)
                  \/ ran[t + 1] # i
                  \/ t > s /\ \E m \in (j + 1)..Len(events) :
                                events[m].kind = "selected" /\ events[m].time = t
  IN CHOOSE t \in s..Len(ran) : stops(t) /\ \A u \in s..(t - 1) : ~stops(u)

RunLength(j) == RunEnd(j) - events[j].time

\* the quantum counter is 0 when a process has just been selected
CounterResetAtSelection ==
  /\ pc = "exec"
  /\ events # <<>>
  /\ events[Len(events)].kind = "selected"
  /\ events[Len(events)].time = time
  => current_quantum_used = 0

\* C6 as stated: under round robin every maximal run of ticks executed under
\* a single "selected" event has length at most q, and exactly q unless the
\* process finished first; the quantum counter is 0 at every new selection.
C6_RunIsQuantumOrFinish ==
  use = "rr" /\ pc \in {"report", "done"} =>
    \A j \in EventsOf("selected") :
      LET end == RunEnd(j)
      IN /\ end - events[j].time <= quantum
         /\ \/ end - events[j].time = quantum
            \/ FinishedAt(events[j].name) = end

\* the state of the runs and of the quantum counter that C6, amended,
\* describes
C6_State ==
  use = "rr" /\ pc \in {"loop", "exec", "report", "done"} =>
    /\ CounterResetAtSelection
    /\ \A j \in EventsOf("selected") :
         events[j].time < Len(ran) =>
           LET end == RunEnd(j)
               length == end - events[j].time
           IN /\ length >= 1
              /\ length <= quantum
              /\ \/ length = quantum
                 \/ FinishedAt(events[j].name) = end
                 \/ end = Len(ran) /\ (pc \in {"report", "done"} => Len(ran) = runfor)

\* C6 amended: under round robin with quantum q >= 1 every maximal run of
\* ticks executed under a single "selected" event has length at most q, and
\* exactly q unless the process finished first or the run was cut off by the
\* end of the simulation at runFor; the quantum counter is 0 at every new
\* selection.
C6_RunIsQuantumOrFinishOrCutOff == []C6_State

\* C6 witness: a process was preempted after exactly quantum = 2 ticks,
\* unfinished, and the simulation went on.
C6_Witness ==
  /\ use = "rr"
  /\ quantum = 2
  /\ \E j \in EventsOf("selected") :
       /\ events[j].time < Len(ran)
       /\ RunLength(j) = 2
       /\ RunEnd(j) < Len(ran)
       /\ procs_sorted[PosOf(events[j].name)].remaining > 0
       /\ ran[RunEnd(j) + 1] # None
       /\ ran[RunEnd(j) + 1] # PosOf(events[j].name)

\* the position in the input of the process of that name
InputPos(name) == CHOOSE i \in 1..Len(procs_input) : procs_input[i].name = name

\* input position a comes before input position b in arrival order, ties
\* broken by the input order
ArrivesBefore(a, b) ==
  \/ procs_input[a].arrival < procs_input[b].arrival
  \/ procs_input[a].arrival = procs_input[b].arrival /\ a < b

\* C7: under FCFS the "selected" events are a prefix of the processes sorted
\* stably by arrival: no process is selected twice, and none is selected
\* while an earlier-arrived (or same-arrival, earlier-in-input) process has
\* not been selected yet.
C7_FcfsSelectsInArrivalOrder ==
  IsFcfs =>
    \A j \in EventsOf("selected") :
      /\ \A m \in EventsOf("selected") :
           m # j => events[m].name # events[j].name
      /\ \A x \in 1..Len(procs_input) :
           ArrivesBefore(x, InputPos(events[j].name)) =>
             \E m \in EventsOf("selected") :
               m < j /\ events[m].name = procs_input[x].name

\* C7 witness: two processes with the same arrival whose names are in the
\* reverse of the input order have both been selected.
C7_Witness ==
  /\ IsFcfs
  /\ Len(procs_input) >= 2
  /\ procs_input[1].arrival = procs_input[2].arrival
  /\ procs_input[1].name > procs_input[2].name
  /\ \E j, m \in EventsOf("selected") :
       /\ j < m
       /\ events[j].name = procs_input[1].name
       /\ events[m].name = procs_input[2].name

\* the units executed so far, summed over the working copies
RECURSIVE UnitsExecuted(_)
UnitsExecuted(ps) ==
  IF ps = <<>> THEN 0
  ELSE (Head(ps).burst - Head(ps).remaining) + UnitsExecuted(Tail(ps))

\* the state of the tick history that C8 describes
C8_State ==
  pc \notin {"start", "error"} =>
    /\ Len(ran) = time
    /\ time <= runfor
    /\ pc \in {"report", "done"} => Len(ran) = runfor
    /\ \A t \in 0..(Len(ran) - 1) :
         LET idles == {j \in EventsOf("Idle") : events[j].time = t}
         IN IF ran[t + 1] = None
            THEN Cardinality(idles) = 1 /\ \A j \in idles : logged_at[j] = t
            ELSE idles = {} /\ ran[t + 1] \in 1..Len(procs_sorted)
    /\ \A j \in EventsOf("Idle") : events[j].time < Len(ran)
    /\ \A i \in 1..Len(procs_sorted) :
         procs_sorted[i].burst - procs_sorted[i].remaining = Executed(i)
    /\ UnitsExecuted(procs_sorted) + Cardinality(EventsOf("Idle")) = Len(ran)

\* C8: in every policy the loop runs exactly runFor ticks, and each tick t
\* either executes exactly one unit of exactly one process or appends exactly
\* one "Idle" event labelled t, never both and never neither; the units
\* executed plus the Idle events are the ticks run, runFor at the end.
C8_EveryTickRunsOrIdles == []C8_State

\* C8 witness: a run of LongRun ticks has ended, all its processes finished
\* early, and it had both executed and idle ticks.
C8_Witness ==
  /\ pc = "done"
  /\ runfor = LongRun
  /\ Len(procs_sorted) >= 1
  /\ \A i \in 1..Len(procs_sorted) : procs_sorted[i].state = "Finished"
  /\ ran[Len(ran)] = None
  /\ Cardinality(EventsOf("Idle")) + UnitsExecuted(procs_sorted) = LongRun

\* what C9 says of one state
C9_RemainingIsBurstLessExecuted ==
  \A i \in 1..Len(procs_sorted) :
    LET p == procs_sorted[i]
    IN /\ p.remaining = p.burst - Executed(i)
       /\ p.remaining >= 0
       /\ p.state = "Finished" <=> p.remaining = 0
       /\ p.finish_time # None <=> p.remaining = 0

\* what C9 says of one step
C9_RemainingNeverIncreases ==
  \A i \in 1..Len(procs_sorted) :
    /\ Len(procs_sorted') = Len(procs_sorted)
    /\ procs_sorted'[i].remaining <= procs_sorted[i].remaining
    /\ procs_sorted'[i].remaining >= procs_sorted[i].remaining - 1

\* C9: for every process (bursts are > 0), in every policy and every
\* reachable state, remaining equals burst minus the number of ticks the
\* process has executed, never increases and never goes below 0, and state
\* is Finished exactly when remaining is 0 and exactly when finish_time is
\* set.
C9_RemainingAccounting ==
  /\ []C9_RemainingIsBurstLessExecuted
  /\ [][C9_RemainingNeverIncreases]_vars

\* C9 witness: one process is finished and another one has executed part of
\* its burst and is waiting in Ready.
C9_Witness ==
  \E i, k \in 1..Len(procs_sorted) :
    /\ procs_sorted[i].state = "Finished"
    /\ procs_sorted[i].remaining = 0
    /\ procs_sorted[k].state = "Ready"
    /\ procs_sorted[k].remaining > 0
    /\ procs_sorted[k].remaining < procs_sorted[k].burst

\* the last Len(procs_input) lines of the output
ReportLine(i) == output_lines[Len(output_lines) - Len(procs_input) + i]

\* C10: the final report has one line per process in original input order;
\* for a process whose finish_time is set the line reports turnaround =
\* finish_time - arrival, wait = turnaround - burst and response =
\* start_time - arrival, start_time being the tick of its first executed
\* unit; for a process whose finish_time is unset it is "did not finish".
C10_ReportInInputOrder ==
  pc = "done" =>
    /\ Cardinality({k \in 1..Len(output_lines) :
                      output_lines[k].kind \in {"metrics", "did not finish"}})
         = Len(procs_input)
    /\ \A i \in 1..Len(procs_input) :
         LET op == procs_input[i]
             w == PosOf(op.name)
         IN /\ ReportLine(i).name = op.name
            /\ IF procs_sorted[w].finish_time # None
               THEN /\ ReportLine(i).kind = "metrics"
                    /\ procs_sorted[w].start_time = FirstRun(w) - 1
                    /\ procs_sorted[w].finish_time = LastRun(w)
                    /\ ReportLine(i).turnaround = LastRun(w) - op.arrival
                    /\ ReportLine(i).wait = LastRun(w) - op.arrival - op.burst
                    /\ ReportLine(i).response = FirstRun(w) - 1 - op.arrival
               ELSE /\ ReportLine(i).kind = "did not finish"
                    /\ Executed(w) < op.burst

\* C10 witness: the input lists the later arrival first; the report has a
\* metrics line with a positive wait and response, and a "did not finish".
C10_Witness ==
  /\ pc = "done"
  /\ Len(procs_input) = 2
  /\ procs_input[1].arrival > procs_input[2].arrival
  /\ \/ /\ ReportLine(1).kind = "did not finish"
        /\ ReportLine(2).kind = "metrics"
     \/ /\ ReportLine(1).kind = "metrics"
        /\ ReportLine(1).wait > 0
        /\ ReportLine(1).response > 0
        /\ ReportLine(2).kind = "metrics"

\* the ticks whose arrival phase has been done
ArrivalsDone == IF pc = "exec" THEN time + 1 ELSE time

\* C11: in every policy, a process with arrival a < runFor gets exactly one
\* "arrived" event, labelled a and appended at the start of tick a, before
\* any selection (or other event) of tick a; processes arriving at the same
\* tick are logged and enqueued in original input order; a process with
\* arrival >= runFor never leaves NotArrived, gets no event and is reported
\* as "did not finish".
C11_ArrivalsLoggedOnce ==
  pc \notin {"start", "error"} =>
    LET arrived == EventsOf("arrived")
    IN /\ ArrivalsDone <= runfor
       /\ pc \in {"report", "done"} => ArrivalsDone = runfor
       /\ \A i \in 1..Len(procs_sorted) :
            LET p == procs_sorted[i]
                arrs == {j \in arrived : events[j].name = p.name}
            IN IF p.arrival < ArrivalsDone
               THEN /\ Cardinality(arrs) = 1
                    /\ p.state # "NotArrived"
                    /\ \A j \in arrs :
                         /\ events[j].time = p.arrival
                         /\ logged_at[j] = p.arrival
                         /\ \A k \in 1..(j - 1) :
                              logged_at[k] = p.arrival => events[k].kind = "arrived"
               ELSE /\ \A j \in 1..Len(events) : events[j].name # p.name
                    /\ p.state = "NotArrived"
                    /\ ~InSeq(ready, i)
                    /\ current # i
       /\ \A j, k \in arrived :
            j < k /\ events[j].time = events[k].time =>
              InputPos(events[j].name) < InputPos(events[k].name)
       \* the processes that wait for their first unit are queued in
       \* arrival order, same-tick arrivals in input order
       /\ \A x, y \in 1..Len(ready) :
            /\ x < y
            /\ procs_sorted[ready[x]].start_time = None
            /\ procs_sorted[ready[y]].start_time = None
            => ArrivesBefore(InputPos(procs_sorted[ready[x]].name),
                             InputPos(procs_sorted[ready[y]].name))
       /\ pc = "done" =>
            \A i \in 1..Len(procs_input) :
              procs_input[i].arrival >= runfor =>
                ReportLine(i).kind = "did not finish"

\* C11 witness: three processes, listed in the input in the reverse of
\* their name order, arrived at the same tick; their "arrived" events are
\* logged in input order before the "selected" event of that tick, the first
\* one listed was dequeued and the other two wait in the queue in input
\* order.
C11_Witness ==
  /\ pc = "exec"
  /\ Len(procs_input) = 3
  /\ procs_input[1].name > procs_input[2].name
  /\ procs_input[2].name > procs_input[3].name
  /\ \A i \in 1..3 : procs_input[i].arrival = time
  /\ Len(events) = 4
  /\ \A i \in 1..3 :
       /\ events[i] = [time |-> time, kind |-> "arrived",
                       name |-> procs_input[i].name, burst |-> None]
       /\ logged_at[i] = time
  /\ events[4].kind = "selected"
  /\ events[4].name = procs_input[1].name
  /\ Len(ready) = 2
  /\ procs_sorted[ready[1]].name = procs_input[2].name
  /\ procs_sorted[ready[2]].name = procs_input[3].name

\* C12: when the algorithm is rr and no quantum was given, or the algorithm
\* name is not a known one, the run ends in a fatal error before any tick is
\* simulated: no loop iteration executes, no event is logged and no output
\* line is produced, and nothing happens after the error.
C12_FatalBeforeAnyTick ==
  /\ \/ use = "rr" /\ quantum = None
     \/ use \notin {"fcfs", "fifo", "sjf", "rr"}
     => /\ pc \in {"start", "error"}
        /\ time = 0
        /\ ran = <<>>
        /\ events = <<>>
        /\ output_lines = <<>>
        /\ procs_sorted = <<>>
        /\ pc = "error" => ~ENABLED Next
  /\ pc = "error" =>
       \/ use = "rr" /\ quantum = None
       \/ use \notin {"fcfs", "fifo", "sjf", "rr"}

\* C12 witness: a round-robin run without a quantum, for a non-empty process
\* list, has ended in the fatal error.
C12_Witness ==
  /\ pc = "error"
  /\ use = "rr"
  /\ quantum = None
  /\ procs_input # <<>>
  /\ runfor = LongRun

\* RR: the process selected by event j executed a full quantum and was
\* unfinished at the tick that followed, whose selection has been done
ExpiredAfter(j) ==
  /\ events[j].time + quantum < ArrivalsDone
  /\ \A c \in {PosOf(events[j].name)} :
       /\ \A k \in (events[j].time + 1)..(events[j].time + quantum) : ran[k] = c
       /\ procs_sorted[c].burst
            > Cardinality({k \in 1..(events[j].time + quantum) : ran[k] = c})

\* position of x in the sequence s, 0 when it is not there
IndexIn(s, x) ==
  IF InSeq(s, x) THEN CHOOSE i \in 1..Len(s) : s[i] = x ELSE 0

\* what C13 says of one state
C13_State ==
  use = "rr" /\ pc \notin {"start", "error"} =>
    \A j \in 1..Len(events) :
      events[j].kind = "selected" /\ ExpiredAfter(j) =>
        \A c \in {PosOf(events[j].name)} :
          \A p \in 1..Len(procs_sorted) :
            procs_sorted[p].arrival = events[j].time + quantum =>
              \* right after the selection of tick t
              /\ pc = "exec" /\ time = events[j].time + quantum =>
                   /\ current # c
                   /\ InSeq(ready, c)
                   /\ current = p \/ (InSeq(ready, p)
                                        /\ IndexIn(ready, p) < IndexIn(ready, c))
              \* in the log: C's next selection comes after one of P
              /\ \A m \in (j + 1)..Len(events) :
                   events[m].kind = "selected" /\ events[m].name = events[j].name =>
                     \E n \in (j + 1)..(m - 1) :
                       /\ events[n].kind = "selected"
                       /\ events[n].name = procs_sorted[p].name
                       /\ events[n].time >= events[j].time + quantum

\* C13: under round robin, when a process P arrives at tick t and the
\* running process C exhausts its quantum at the same tick t without
\* finishing, P is placed in the ready queue ahead of C (the arrivals of
\* tick t are enqueued before C is appended to the tail), so P is selected
\* before C is selected again.
C13_ArrivalAheadOfPreempted == []C13_State

\* C13 witness: C used up its quantum at the tick at which P arrived, P was
\* selected at that tick, and C was selected again later.
C13_Witness ==
  /\ use = "rr"
  /\ \E j, n, m \in EventsOf("selected") :
       /\ j < n
       /\ n < m
       /\ ExpiredAfter(j)
       /\ events[m].name = events[j].name
       /\ events[n].name # events[j].name
       /\ events[n].time = events[j].time + quantum
       /\ procs_sorted[PosOf(events[n].name)].arrival = events[n].time

\* RR: the process selected by event j executed a full quantum, and the last
\* tick of it was the last unit of its burst
FinishedWithQuantum(j) ==
  /\ events[j].time + quantum <= Len(ran)
  /\ \A c \in {PosOf(events[j].name)} :
       /\ \A k \in (events[j].time + 1)..(events[j].time + quantum) : ran[k] = c
       /\ procs_sorted[c].burst
            = Cardinality({k \in 1..(events[j].time + quantum) : ran[k] = c})

\* what C14 says of one state
C14_State ==
  use = "rr" /\ pc \notin {"start", "error"} =>
    /\ \A x \in 1..Len(ready) :
         /\ procs_sorted[ready[x]].remaining > 0
         /\ procs_sorted[ready[x]].state = "Ready"
         /\ procs_sorted[ready[x]].finish_time = None
    /\ \A j \in 1..Len(events) :
         events[j].kind = "selected" /\ FinishedWithQuantum(j) =>
           \A c \in {PosOf(events[j].name)} :
              /\ procs_sorted[c].state = "Finished"
              /\ procs_sorted[c].remaining = 0
              /\ procs_sorted[c].finish_time = events[j].time + quantum
              /\ \E f \in (j + 1)..Len(events) :
                   /\ events[f].kind = "finished"
                   /\ events[f].name = events[j].name
                   /\ events[f].time = events[j].time + quantum
                   /\ logged_at[f] = events[j].time + quantum - 1
              /\ ~InSeq(ready, c)
              /\ current # c
              /\ \A m \in (j + 1)..Len(events) :
                   events[m].name = events[j].name => events[m].kind = "finished"

\* C14: under round robin, a process whose remaining reaches 0 on the very
\* tick that also uses up its quantum is treated as finished, not as
\* preempted: it gets a "finished" event, is never appended to the ready
\* queue again and is never selected again; in no reachable state does the
\* ready queue hold a finished process.
C14_FinishBeatsQuantum == []C14_State

\* C14 witness: a process finished on the last tick of a quantum of 2, and
\* the process that waited in the ready queue was selected at that tick.
C14_Witness ==
  /\ use = "rr"
  /\ quantum = 2
  /\ \E j, m \in EventsOf("selected") :
       /\ FinishedWithQuantum(j)
       /\ j < m
       /\ events[m].time = events[j].time + quantum
       /\ events[m].name # events[j].name
       /\ ran[events[m].time] = PosOf(events[j].name)
       /\ Len(ran) > events[m].time

\* the positions of the processes in state Running
Running == {i \in 1..Len(procs_sorted) : procs_sorted[i].state = "Running"}

\* C15: in every policy and every reachable state at most one process is in
\* state Running, and that process is the simulator's current process;
\* during every tick that executes a unit of work exactly one process is
\* Running, the one that executes; a process that is preempted (SJF, RR) is
\* back in Ready when another one is Running.
C15_OneRunning ==
  /\ Cardinality(Running) <= 1
  /\ Running = IF current = None THEN {} ELSE {current}
  /\ pc = "exec" /\ current # None =>
       /\ Running = {current}
       /\ procs_sorted[current].remaining > 0
  /\ pc = "loop" /\ time > 0 /\ ran[time] # None =>
       Running \subseteq {ran[time]}
  /\ pc = "exec" /\ time > 0 =>
       \A a \in 1..Len(procs_sorted) :
         ran[time] = a /\ procs_sorted[a].remaining > 0 /\ current # a =>
           /\ procs_sorted[a].state = "Ready"
           /\ InSeq(ready, a)
           /\ use \in {"sjf", "rr"}

\* C15 witness: under round robin the process that executed the tick before
\* was preempted and is Ready, and another process is the one Running.
C15_Witness ==
  /\ use = "rr"
  /\ pc = "exec"
  /\ time > 0
  /\ ran[time] # None
  /\ ran[time] # current
  /\ procs_sorted[ran[time]].remaining > 0
  /\ procs_sorted[ran[time]].state = "Ready"
  /\ Running = {current}

\* the moves of a state that one step of the model can show: a process that
\* arrives and is selected in the same tick passes through Ready within the
\* step
StateMoves ==
  {<<"NotArrived", "NotArrived">>, <<"NotArrived", "Ready">>,
   <<"NotArrived", "Running">>, <<"Ready", "Ready">>, <<"Ready", "Running">>,
   <<"Running", "Running">>, <<"Running", "Ready">>,
   <<"Running", "Finished">>, <<"Finished", "Finished">>}

\* what C16 says of one step
C16_Step ==
  \A i \in 1..Len(procs_sorted) :
    /\ Len(procs_sorted') = Len(procs_sorted)
    /\ <<procs_sorted[i].state, procs_sorted'[i].state>> \in StateMoves
    /\ procs_sorted[i].state = "Running" /\ procs_sorted'[i].state = "Ready" =>
         /\ use \in {"sjf", "rr"}
         /\ procs_sorted[i].remaining > 0
         /\ current' # i
    /\ procs_sorted[i].start_time # None =>
         procs_sorted'[i].start_time = procs_sorted[i].start_time
    /\ procs_sorted[i].finish_time # None =>
         procs_sorted'[i].finish_time = procs_sorted[i].finish_time

\* what C16 says of one state; the log shows the states a process has been
\* through: it has an "arrived" event once it has been Ready and a
\* "selected" event once it has been Running
C16_State ==
  \A i \in 1..Len(procs_sorted) :
    LET p == procs_sorted[i]
    IN /\ p.state \in {"NotArrived", "Ready", "Running", "Finished"}
       /\ p.state # "NotArrived" =>
            \E j \in EventsOf("arrived") : events[j].name = p.name
       /\ p.state \in {"Running", "Finished"} => p.start_time # None
       /\ p.start_time # None <=>
            \E j \in EventsOf("selected") : events[j].name = p.name
       /\ p.start_time # None => p.start_time = FirstRun(i) - 1
                                     \/ (FirstRun(i) = 0 /\ p.start_time = time)
       /\ p.finish_time # None =>
            /\ p.state = "Finished"
            /\ p.start_time # None
            /\ p.start_time <= p.finish_time - 1

\* C16: a process's state only moves NotArrived -> Ready -> Running ->
\* Finished, with Running -> Ready only by preemption under SJF or RR, never
\* under FCFS; no process ever leaves Finished; start_time and finish_time
\* are each written at most once and never change afterwards, and
\* start_time <= finish_time - 1 whenever both are set.
C16_StateMovesForward ==
  /\ []C16_State
  /\ [][C16_Step]_vars

\* C16 witness: a process that was preempted after its first unit, waited
\* and was selected again has finished, its start_time still the tick of
\* its first unit.
C16_Witness ==
  /\ use \in {"sjf", "rr"}
  /\ \E i \in 1..Len(procs_sorted) :
       /\ procs_sorted[i].state = "Finished"
       /\ procs_sorted[i].start_time = FirstRun(i) - 1
       /\ procs_sorted[i].finish_time = LastRun(i)
       /\ procs_sorted[i].finish_time - procs_sorted[i].start_time
            > procs_sorted[i].burst

\* C17: running any of the three schedulers leaves the caller's process
\* descriptors unchanged: every input process still has remaining = burst,
\* state NotArrived and start_time and finish_time unset, and the input list
\* is in the order it had when the run began; only the working copies are
\* mutated.
C17_InputUntouched ==
  pc \in {"loop", "exec", "report", "done"} =>
    /\ procs_input = original_order
    /\ Len(procs_input) = Len(procs_sorted)
    /\ \A i \in 1..Len(procs_input) :
         /\ procs_input[i] = Process(procs_input[i].name,
                                     procs_input[i].arrival,
                                     procs_input[i].burst)
         /\ procs_sorted[PosOf(procs_input[i].name)].arrival = procs_input[i].arrival
         /\ procs_sorted[PosOf(procs_input[i].name)].burst = procs_input[i].burst

\* C17 witness: a scheduler has returned, the working copies of two
\* processes given out of arrival order are Finished, and the caller's
\* descriptors are as they were.
C17_Witness ==
  /\ pc = "report"
  /\ Len(procs_input) = 2
  /\ procs_input[1].arrival > procs_input[2].arrival
  /\ procs_sorted[1].name = procs_input[2].name
  /\ \A i \in 1..2 :
       /\ procs_sorted[i].state = "Finished"
       /\ procs_sorted[i].remaining = 0
       /\ procs_input[i].state = "NotArrived"
       /\ procs_input[i].remaining = procs_input[i].burst

\* process i has arrived by tick t and has not finished by then
Pending(i, t) ==
  /\ procs_sorted[i].arrival <= t
  /\ Cardinality({k \in 1..t : ran[k] = i}) < procs_sorted[i].burst

\* what C18 says of one state
C18_State ==
  pc \notin {"start", "error"} =>
    /\ \A j \in EventsOf("Idle") :
         /\ events[j].time < Len(ran)
         /\ ran[events[j].time + 1] = None
         /\ \A i \in 1..Len(procs_sorted) :
              procs_sorted[i].arrival <= events[j].time =>
                /\ procs_sorted[i].state = "Finished"
                /\ procs_sorted[i].finish_time <= events[j].time
    /\ \A t \in 0..(Len(ran) - 1) :
         IF ran[t + 1] = None
         THEN \A i \in 1..Len(procs_sorted) : ~Pending(i, t)
         ELSE Pending(ran[t + 1], t)
    /\ pc = "exec" =>
         IF current = None
         THEN \A i \in 1..Len(procs_sorted) : ~Pending(i, time)
         ELSE Pending(current, time)

\* C18 (work conservation): in every policy an "Idle" event is appended at
\* tick t only if every process with arrival <= t is already Finished;
\* whenever some arrived process is unfinished at tick t, a process, itself
\* arrived and unfinished, executes at tick t.
C18_WorkConserving == []C18_State

\* C18 witness: the first tick was idle because nothing had arrived, the
\* next one executed the process that arrived then, and the run idled again
\* once everything had finished.
C18_Witness ==
  /\ Len(ran) >= 3
  /\ ran[1] = None
  /\ ran[2] # None
  /\ procs_sorted[ran[2]].arrival = 1
  /\ ran[Len(ran)] = None
  /\ \A i \in 1..Len(procs_sorted) : procs_sorted[i].state = "Finished"

\* the latest arrival of a process list
RECURSIVE LatestArrival(_)
LatestArrival(ps) ==
  IF ps = <<>> THEN 0
  ELSE IF Head(ps).arrival > LatestArrival(Tail(ps)) THEN Head(ps).arrival
  ELSE LatestArrival(Tail(ps))

\* C19 (completion): with arrivals >= 0, bursts > 0 and, for RR, a quantum
\* >= 1, if runFor >= max(arrival) + the sum of all bursts then under every
\* policy every process has reached Finished when the run ends, with
\* finish_time <= runFor, and none is reported as "did not finish": no
\* process is starved by SJF preemption or RR requeueing.
C19_AllFinishInALongRun ==
  /\ pc \in {"report", "done"}
  /\ runfor >= LatestArrival(procs_input) + SumOfBursts(procs_input)
  => /\ \A i \in 1..Len(procs_sorted) :
          /\ procs_sorted[i].state = "Finished"
          /\ procs_sorted[i].remaining = 0
          /\ procs_sorted[i].finish_time # None
          /\ procs_sorted[i].finish_time <= runfor
          /\ procs_sorted[i].finish_time
               <= LatestArrival(procs_input) + SumOfBursts(procs_input)
     /\ pc = "done" =>
          \A i \in 1..Len(procs_input) : ReportLine(i).kind = "metrics"

\* C19 witness: an SJF run long enough for its two processes has ended; the
\* one that was preempted by the later arrival has finished, as the report
\* says.
C19_Witness ==
  /\ pc = "done"
  /\ use = "sjf"
  /\ Len(procs_input) = 2
  /\ runfor >= LatestArrival(procs_input) + SumOfBursts(procs_input)
  /\ \E i \in 1..2 :
       /\ procs_sorted[i].state = "Finished"
       /\ procs_sorted[i].finish_time - procs_sorted[i].start_time
            > procs_sorted[i].burst
       /\ ReportLine(InputPos(procs_sorted[i].name)).kind = "metrics"

\* what process i had left at the start of tick t
RemainingAt(i, t) ==
  procs_sorted[i].burst - Cardinality({k \in 1..t : ran[k] = i})

\* what C20 says of one state
C20_State ==
  use = "sjf" /\ pc \notin {"start", "error"} =>
    \A t \in 1..(Len(ran) - 1) :
      LET a == ran[t]
          b == ran[t + 1]
      IN a # None /\ RemainingAt(a, t) > 0 =>
           /\ b # None
           /\ b # a =>
                /\ procs_sorted[b].arrival = t
                /\ procs_sorted[b].burst < RemainingAt(a, t)
                /\ \E j \in EventsOf("selected") :
                     /\ events[j].time = t
                     /\ events[j].name = procs_sorted[b].name
           /\ (\A p \in 1..Len(procs_sorted) :
                 procs_sorted[p].arrival = t =>
                   procs_sorted[p].burst >= RemainingAt(a, t))
              => /\ b = a
                 /\ \A j \in EventsOf("selected") : events[j].time # t

\* C20: under preemptive SJF a running, unfinished process is switched out
\* at tick t only when a process arriving at tick t has a burst strictly
\* smaller than the running process's remaining; a tie on remaining never
\* preempts the running process, and a process that was already Ready at
\* tick t-1 never displaces the process that executed at tick t-1 while that
\* process is unfinished.
C20_OnlyAShorterArrivalPreempts == []C20_State

\* C20 witness: a process arrived with a burst equal to what the running
\* process had left, and the running process executed the tick.
C20_Witness ==
  /\ use = "sjf"
  /\ \E t \in 1..(Len(ran) - 1) :
       /\ ran[t] # None
       /\ ran[t + 1] = ran[t]
       /\ \E p \in 1..Len(procs_sorted) :
            /\ procs_sorted[p].arrival = t
            /\ procs_sorted[p].burst = RemainingAt(ran[t], t)

====
